---- MODULE Spec2Model ----
(***************************************************************************)
(* A model of the ToyDB storage engine (src/toydb/db.py): TLV record       *)
(* codec, append-only data files data{i}.db, the in-memory offset cache    *)
(* and the operations get / set / delete / drop / compact / merge.         *)
(*                                                                         *)
(* A str is a sequence of code points, a bytes object a sequence of        *)
(* numbers 0..255, a file a record [exists, data] whose data is the byte   *)
(* content.  An optional value (Python's None) is a sequence of length 0   *)
(* (None) or 1 (the value).                                                *)
(*                                                                         *)
(* Specifications: Spec (one engine, its operations and restarts),         *)
(* SpecOversize (the writers with inputs past the length limit),           *)
(* SpecCompactAll (compact_all as an operation of its own), SpecReopened   *)
(* (merge on a directory an earlier instance left) and SpecCodec (the      *)
(* record codec alone).                                                    *)
(***************************************************************************)
EXTENDS Integers, Sequences, FiniteSets, TLC

\* ---------------------------------------------------------------- bounds
\* Highest data file index the model lets the engine reach.
MaxIndex == 3
\* Number of public operations in one behaviour.
MaxOps == 4
\* Number of set, delete and drop calls of an earlier engine instance on the
\* directory an engine is constructed on.
MaxEarlierOps == 3
\* Length of the long value: with a one-byte key its record is 4 + 1 + 250 =
\* 255 bytes, exactly max_file_size.
BigLen == 250

\* ------------------------------------------------------------- constants
KEY == 0
VALUE == 1
TOMBSTONE == 2
max_file_size == 255

None == <<>>
Some(x) == <<x>>

Min(a, b) == IF a < b THEN a ELSE b

\* The keys and values the operations are called with: "k", "é" (two bytes
\* in utf-8), "b" and a long run of "a".
Keys == {<<107>>, <<233>>}
Big == [i \in 1..BigLen |-> 97]
Values == {<<98>>, Big}
\* Inputs past the limit of one length byte: 256 times "a", and 128 times
\* "é", which is 256 bytes in utf-8.
TooLong == [i \in 1..256 |-> 97]
TooWide == [i \in 1..128 |-> 233]
Indexes == 0..MaxIndex

\* ------------------------------------------------------------- encoding
\* str.encode("utf-8") for code points below 2048: one byte below 128, two
\* bytes above.  A string of code points below 128 is its own encoding;
\* any other string is encoded half by half.
RECURSIVE encode(_)
encode(s) ==
    IF \A i \in 1..Len(s) : s[i] < 128 THEN s
    ELSE IF Len(s) = 1
    THEN <<192 + (s[1] \div 64), 128 + (s[1] % 64)>>
    ELSE LET h == Len(s) \div 2
         IN encode(SubSeq(s, 1, h)) \o encode(SubSeq(s, h + 1, Len(s)))

\* bytes.decode("utf-8") for the one- and two-byte forms: bytes below 128
\* are their own code points; otherwise half by half, where a cut never
\* separates a lead byte from its continuation byte (128..191).
RECURSIVE decode(_)
decode(b) ==
    IF \A i \in 1..Len(b) : b[i] < 128 THEN b
    ELSE IF Len(b) = 2 /\ b[1] >= 192
    THEN <<(b[1] - 192) * 64 + (b[2] - 128)>>
    ELSE LET h == Len(b) \div 2
             cut == IF b[h + 1] \in 128..191 THEN h + 1 ELSE h
         IN decode(SubSeq(b, 1, cut)) \o decode(SubSeq(b, cut + 1, Len(b)))

\* ---------------------------------------------------------------- codec
ToyDBRecord(key, value, tombstone) ==
    [key |-> key, value |-> value, tombstone |-> tombstone]

\* len(self.value) raises TypeError when value is None.
size_in_bytes_raises(r) == r.value = None

size_in_bytes(r) ==
    LET size_of_key == 2 + Len(r.key)
        size_of_value == 2 + Len(r.value[1])
    IN size_of_key + size_of_value

\* serialize that checks the length of the value only.
serialize_raises_value_only(r) == ~r.tombstone /\ Len(r.value[1]) > 255

\* bytes([n]) raises ValueError for n > 255, turned into ToyDBException.
serialize_raises(r) ==
    \/ Len(r.key) > 255
    \/ ~r.tombstone /\ Len(r.value[1]) > 255

\* serialize that writes a tombstone under the type KEY.
serialize_tombstone_as_key(r) ==
    IF ~r.tombstone
    THEN <<KEY>> \o <<Len(r.key)>> \o r.key
         \o <<VALUE>> \o <<Len(r.value[1])>> \o r.value[1]
    ELSE <<KEY>> \o <<Len(r.key)>> \o r.key

serialize(r) ==
    IF ~r.tombstone
    THEN <<KEY>> \o <<Len(r.key)>> \o r.key
         \o <<VALUE>> \o <<Len(r.value[1])>> \o r.value[1]
    ELSE <<TOMBSTONE>> \o <<Len(r.key)>> \o r.key

\* file.read(n) at position pos (pos = number of bytes before the cursor).
read(data, pos, n) == SubSeq(data, pos + 1, Min(pos + n, Len(data)))

\* int.from_bytes of at most one byte.
from_bytes(b) == IF b = <<>> THEN 0 ELSE b[1]

\* Truthiness of an optional bytes object: None and b"" are false.
truthy(key) == key # None /\ key[1] # <<>>

NoRecord == ToyDBRecord(<<>>, None, FALSE)

\* ToyDBRecord.deserialize on a file with content data and cursor at pos,
\* with the pending key so far.  kind is "record", "none" (end of file) or
\* "error" (ToyDBException); pos is the cursor afterwards.
RECURSIVE deserialize_from(_, _, _)
deserialize_from(data, pos, key) ==
    LET type_ == read(data, pos, 1)
        length == from_bytes(read(data, pos + 1, 1))
        at == Min(pos + 2, Len(data))
        payload == read(data, at, length)
        next == Min(at + length, Len(data))
    IN IF type_ = <<>>
       THEN [kind |-> "none", record |-> NoRecord, pos |-> pos]
       ELSE CASE from_bytes(type_) = KEY ->
                   IF truthy(key)
                   THEN [kind |-> "error", record |-> NoRecord, pos |-> at]
                   ELSE deserialize_from(data, next, Some(payload))
              [] from_bytes(type_) = VALUE ->
                   IF ~truthy(key)
                   THEN [kind |-> "error", record |-> NoRecord, pos |-> at]
                   ELSE [kind |-> "record",
                         record |-> ToyDBRecord(key[1], Some(payload), FALSE),
                         pos |-> next]
              [] from_bytes(type_) = TOMBSTONE ->
                   [kind |-> "record",
                    record |-> ToyDBRecord(payload, None, TRUE),
                    pos |-> next]
              [] OTHER -> [kind |-> "error", record |-> NoRecord, pos |-> at]

deserialize(data, pos) == deserialize_from(data, pos, None)

\* ---------------------------------------------------------------- state
VARIABLES
    files,            \* data{i}.db: [exists, data] for every i in Indexes
    temp_files,       \* tempdata{i}.db, likewise
    data_file_index,  \* self.data_file_index
    cache,            \* self.cache: data file index -> (key -> byte offset)
    tasks,            \* the compact tasks of a running compact_all
    running,          \* "" or the public operation that awaits the tasks
    last,             \* the last public operation and how it ended
    before,           \* what get and len(files) gave when merge was called,
                      \* the engine as it was when compact_all was called
    plain,            \* TRUE while only set and delete have been called
    nops,             \* number of public operations so far
    codec_record,     \* a ToyDBRecord handed to the codec on its own
    stream,           \* the bytes it was serialized to, and the read cursor
    returned          \* the codec call made last and what it returned

vars == <<files, temp_files, data_file_index, cache, tasks, running, last,
          before, plain, nops, codec_record, stream, returned>>

codec_vars == <<codec_record, stream, returned>>
engine_vars == <<files, temp_files, data_file_index, cache, tasks, running,
                 last, before, plain, nops>>

NoFile == [exists |-> FALSE, data |-> <<>>]
EmptyFile == [exists |-> TRUE, data |-> <<>>]
EmptyDict == <<>>

\* dict[k] = v
dict_set(d, k, v) == [x \in (DOMAIN d) \cup {k} |-> IF x = k THEN v ELSE d[x]]

\* The engine's own state as one value, so that operations compose.
DB == [files |-> files, data_file_index |-> data_file_index, cache |-> cache,
       full |-> FALSE]

\* ------------------------------------------------------- engine operations
\* The start of set and delete, up to the first await: roll over when the
\* record would make the current file larger than max_file_size, then take
\* the size of the (new) current file as the offset.
\* append_record is the whole append run without interruption: the start,
\* the write, and the offset remembered under key.  full marks a roll-over
\* past MaxIndex, which the model refuses.
set_begin(st, serialized_record) ==
    LET cur == st.files[st.data_file_index]
        index == IF cur.exists
                    /\ Len(cur.data) + Len(serialized_record) > max_file_size
                 THEN st.data_file_index + 1
                 ELSE st.data_file_index
    IN [data_file_index |-> index,
        byte_offset |-> IF index \in Indexes /\ st.files[index].exists
                        THEN Len(st.files[index].data) ELSE 0]

append_record(st, serialized_record, key) ==
    LET b == set_begin(st, serialized_record)
        index == b.data_file_index
    IN IF st.full \/ index > MaxIndex
       THEN [st EXCEPT !.full = TRUE]
       ELSE [st EXCEPT
                !.data_file_index = index,
                !.files[index] =
                    [exists |-> TRUE,
                     data |-> st.files[index].data \o serialized_record],
                !.cache[index] = dict_set(st.cache[index], key, b.byte_offset)]

set(st, key, value) ==
    append_record(st, serialize(ToyDBRecord(encode(key), Some(encode(value)), FALSE)),
                  key)

\* delete that writes the tombstone but leaves the cache alone.
delete_uncached(st, key) ==
    LET appended == append_record(st, serialize(ToyDBRecord(encode(key), None, TRUE)),
                                  key)
    IN [appended EXCEPT !.cache = st.cache]

delete(st, key) ==
    append_record(st, serialize(ToyDBRecord(encode(key), None, TRUE)), key)

\* files_reversed with the order of the property files: oldest first.
files_forward(st) == [n \in 1..(st.data_file_index + 1) |-> n - 1]

\* The indices of the data files in the order of the property
\* files_reversed: data_file_index down to 0.
files_reversed(st) ==
    [n \in 1..(st.data_file_index + 1) |-> st.data_file_index + 1 - n]

\* get: the first file, in the order given, whose cache knows the key
\* decides.  raised is "" when the call returns.
RECURSIVE get_in(_, _, _)
get_in(st, key, order) ==
    IF order = <<>> THEN [raised |-> "", value |-> None]
    ELSE LET i == Head(order)
         IN IF key \in DOMAIN st.cache[i]
            THEN IF ~st.files[i].exists
                 THEN [raised |-> "FileNotFoundError", value |-> None]
                 ELSE LET d == deserialize(st.files[i].data, st.cache[i][key])
                      IN CASE d.kind = "error" ->
                                [raised |-> "ToyDBException", value |-> None]
                           [] d.kind = "none" ->
                                [raised |-> "AttributeError", value |-> None]
                           [] d.kind = "record" /\ d.record.tombstone ->
                                [raised |-> "", value |-> None]
                           [] OTHER ->
                                [raised |-> "",
                                 value |-> Some(decode(d.record.value[1]))]
            ELSE get_in(st, key, Tail(order))

get(st, key) == get_in(st, key, files_reversed(st))

\* drop: unlink data0 .. data{data_file_index} and pop their cache entries.
drop(st) ==
    [st EXCEPT
        !.files = [i \in Indexes |->
                      IF i <= st.data_file_index THEN NoFile ELSE st.files[i]],
        !.cache = [i \in Indexes |->
                      IF i <= st.data_file_index THEN EmptyDict ELSE st.cache[i]]]

\* The probe of __init__: count up while data{i}.db exists.
RECURSIVE probe(_, _)
probe(fs, i) == IF i \in Indexes /\ fs[i].exists THEN probe(fs, i + 1) ELSE i

\* ToyDB.__init__ on a directory holding the data files fs.
init(fs) ==
    LET i == probe(fs, 0)
    IN [files |-> IF i = 0 THEN [fs EXCEPT ![0] = EmptyFile] ELSE fs,
        data_file_index |-> IF i = 0 THEN 0 ELSE i - 1,
        cache |-> [j \in Indexes |-> EmptyDict],
        full |-> FALSE]

\* ------------------------------------------------------------ compaction
\* An insertion-ordered dict as a sequence of <<key, value>> pairs.
od_has(d, k) == \E n \in 1..Len(d) : d[n][1] = k

od_set(d, k, v) ==
    IF od_has(d, k)
    THEN [n \in 1..Len(d) |-> IF d[n][1] = k THEN <<k, v>> ELSE d[n]]
    ELSE Append(d, <<k, v>>)

od_del(d, k) == SelectSeq(d, LAMBDA e : e[1] # k)

\* The scan loop of compact over a file's content.  raised is "" when the
\* loop reaches the end of the file, else the exception that ends it.
RECURSIVE compact_scan(_, _, _, _, _)
compact_scan(data, pos, current_key, values, tombstones) ==
    LET type_ == read(data, pos, 1)
        length == from_bytes(read(data, pos + 1, 1))
        at == Min(pos + 2, Len(data))
        payload == read(data, at, length)
        next == Min(at + length, Len(data))
        fail(e) == [raised |-> e, values |-> values, tombstones |-> tombstones]
    IN IF type_ = <<>>
       THEN [raised |-> "", values |-> values, tombstones |-> tombstones]
       ELSE CASE from_bytes(type_) = KEY ->
                   IF truthy(current_key)
                   THEN fail("ToyDBException")
                   ELSE compact_scan(data, next, Some(payload), values, tombstones)
              [] from_bytes(type_) = VALUE ->
                   IF ~truthy(current_key)
                   THEN fail("ToyDBException")
                   ELSE compact_scan(data, next, None,
                                     od_set(values, current_key[1], payload),
                                     tombstones \ {current_key[1]})
              [] from_bytes(type_) = TOMBSTONE ->
                   IF ~od_has(values, payload)
                   THEN fail("KeyError")
                   ELSE compact_scan(data, next, current_key,
                                     od_del(values, payload),
                                     tombstones \cup {payload})
              [] OTHER -> fail("ToyDBException")

\* The orders in which a set can be iterated.
RECURSIVE Orders(_)
Orders(S) ==
    IF S = {} THEN {<<>>}
    ELSE UNION {{<<x>> \o o : o \in Orders(S \ {x})} : x \in S}

\* "if not index: index = self.data_file_index": None and 0 both select the
\* current data file.
compact_index(st, index) ==
    IF index = None \/ index[1] = 0 THEN st.data_file_index ELSE index[1]

\* The re-issue loops of compact: set for every surviving value, then delete
\* for every tombstone, the latter in the iteration order given.
RECURSIVE reissue_values(_, _)
reissue_values(st, values) ==
    IF values = <<>> THEN st
    ELSE reissue_values(set(st, decode(values[1][1]), decode(values[1][2])),
                        Tail(values))

RECURSIVE reissue_tombstones(_, _)
reissue_tombstones(st, order) ==
    IF order = <<>> THEN st
    ELSE reissue_tombstones(delete(st, decode(Head(order))), Tail(order))

\* unlink, touch, reset of the file's cache.
compact_reset(st, index) ==
    [st EXCEPT !.files[index] = EmptyFile, !.cache[index] = EmptyDict]

\* compact(index) run alone.  order is the iteration order of the
\* tombstones set.  The result is the new engine state and the exception
\* raised, "" when the call returns.
compact(st, index, order) ==
    LET i == compact_index(st, index)
        scan == compact_scan(st.files[i].data, 0, None, <<>>, {})
    IN IF i \notin Indexes \/ ~st.files[i].exists
       THEN [st |-> st, raised |-> "FileNotFoundError"]
       ELSE IF scan.raised # ""
       THEN [st |-> st, raised |-> scan.raised]
       ELSE [st |-> reissue_tombstones(
                        reissue_values(compact_reset(st, i), scan.values), order),
             raised |-> ""]

\* The tombstone orders compact(index) can meet in state st.
compact_orders(st, index) ==
    LET i == compact_index(st, index)
    IN IF i \notin Indexes \/ ~st.files[i].exists THEN {<<>>}
       ELSE Orders(compact_scan(st.files[i].data, 0, None, <<>>, {}).tombstones)

\* ----------------------------------------------------------------- merge
\* The loop of iterate over the data files i .. end in order: the records
\* read up to the first exception (a missing file, a corrupt record), if
\* any.
RECURSIVE iterate_file(_, _)
iterate_file(data, pos) ==
    LET d == deserialize(data, pos)
    IN CASE d.kind = "none" -> [records |-> <<>>, raised |-> ""]
         [] d.kind = "error" -> [records |-> <<>>, raised |-> "ToyDBException"]
         [] OTHER -> LET rest == iterate_file(data, d.pos)
                     IN [records |-> <<d.record>> \o rest.records,
                         raised |-> rest.raised]

RECURSIVE iterate_files(_, _, _)
iterate_files(fs, i, end) ==
    IF i > end THEN [records |-> <<>>, raised |-> ""]
    ELSE IF ~fs[i].exists
    THEN [records |-> <<>>, raised |-> "FileNotFoundError"]
    ELSE LET one == iterate_file(fs[i].data, 0)
         IN IF one.raised # "" THEN one
            ELSE LET rest == iterate_files(fs, i + 1, end)
                 IN [records |-> one.records \o rest.records,
                     raised |-> rest.raised]

\* iterate(index): "self.files if not index else [list(self.files)[index]]",
\* so None and 0 both select every data file; an index past the list raises
\* IndexError.  merge calls it with no index, which is iterate_files
\* over data0 .. data{data_file_index}.
iterate(st, index) ==
    IF index = None \/ index[1] = 0
    THEN iterate_files(st.files, 0, st.data_file_index)
    ELSE IF index[1] > st.data_file_index
    THEN [records |-> <<>>, raised |-> "IndexError"]
    ELSE iterate_files(st.files, index[1], index[1])

RECURSIVE sum_sizes(_)
sum_sizes(mapping) ==
    IF mapping = <<>> THEN 0
    ELSE size_in_bytes(mapping[1][2]) + sum_sizes(Tail(mapping))

od_get(d, k) == (CHOOSE n \in 1..Len(d) : d[n][1] = k)

\* "async with open(temp file, 'ba')": write the mapping's records in
\* insertion order to the end of the temp file, noting file.tell() for each.
\* open(path, "ba"): the file exists afterwards, its content is kept.
open_append(file) == [exists |-> TRUE, data |-> file.data]

RECURSIVE write_out(_, _)
write_out(out, mapping) ==
    IF mapping = <<>> THEN out
    ELSE write_out(
            [file |-> [exists |-> TRUE,
                       data |-> out.file.data \o serialize(mapping[1][2])],
             offsets |-> dict_set(out.offsets, decode(mapping[1][1]),
                                  Len(out.file.data))],
            Tail(mapping))

\* One pass of the merge loop over the records still to come.  m carries
\* index, key_record_mapping, new_cache, the temp files and the exception
\* raised so far; full marks an output index past MaxIndex.
RECURSIVE merge_loop(_, _)
merge_loop(m, records) ==
    IF records = <<>> \/ m.raised # "" \/ m.full THEN m
    ELSE LET record == Head(records)
         IN IF size_in_bytes_raises(record)
            THEN [m EXCEPT !.raised = "TypeError"]
            ELSE
            LET current_size == sum_sizes(m.key_record_mapping)
                known == od_has(m.key_record_mapping, record.key)
                size_with_record ==
                    current_size + size_in_bytes(record)
                    - (IF known
                       THEN size_in_bytes(
                              m.key_record_mapping[
                                  od_get(m.key_record_mapping, record.key)][2])
                       ELSE 0)
            IN IF size_with_record >= max_file_size
               THEN IF m.index + 1 > MaxIndex
                    THEN [m EXCEPT !.full = TRUE]
                    ELSE
                    LET out == write_out([file |-> open_append(m.temp_files[m.index]),
                                          offsets |-> m.new_cache[m.index]],
                                         m.key_record_mapping)
                    IN merge_loop(
                         [m EXCEPT !.temp_files[m.index] = out.file,
                                   !.new_cache[m.index] = out.offsets,
                                   !.index = m.index + 1,
                                   !.key_record_mapping = <<<<record.key, record>>>>],
                         Tail(records))
               ELSE merge_loop(
                      [m EXCEPT !.key_record_mapping =
                                    od_set(m.key_record_mapping, record.key, record)],
                      Tail(records))

\* merge() after compact_all has returned.  The result is the new engine
\* state, the temp files and the exception raised ("" when merge returns).
merge_rest(st, temps) ==
    LET it == iterate_files(st.files, 0, st.data_file_index)
        m0 == [index |-> 0, key_record_mapping |-> <<>>,
               new_cache |-> [i \in Indexes |-> EmptyDict],
               temp_files |-> temps, raised |-> "", full |-> FALSE]
        m == merge_loop(m0, it.records)
    IN IF m.full
       THEN [st |-> [st EXCEPT !.full = TRUE], temp_files |-> temps, raised |-> ""]
       ELSE IF m.raised # ""
       THEN [st |-> st, temp_files |-> m.temp_files, raised |-> m.raised]
       ELSE IF it.raised # ""
       THEN [st |-> st, temp_files |-> m.temp_files, raised |-> it.raised]
       ELSE
       LET out == write_out([file |-> open_append(m.temp_files[m.index]),
                             offsets |-> m.new_cache[m.index]],
                            m.key_record_mapping)
           written == [m.temp_files EXCEPT ![m.index] = out.file]
           dropped == drop(st)
       IN [st |-> [files |-> [i \in Indexes |->
                                 IF i <= m.index THEN written[i]
                                 ELSE dropped.files[i]],
                   data_file_index |-> m.index,
                   cache |-> [m.new_cache EXCEPT ![m.index] = out.offsets],
                   full |-> FALSE],
           temp_files |-> [i \in Indexes |->
                              IF i <= m.index THEN NoFile ELSE written[i]],
           raised |-> ""]

\* ------------------------------------------------------------- actions
Last(op, key, value, index, raised) ==
    [op |-> op, key |-> key, value |-> value, index |-> index, raised |-> raised]

Idle == running = "" /\ nops < MaxOps

NoBefore == [get |-> <<>>, segments |-> 0, plain |-> FALSE, db |-> None]

Install(st) ==
    /\ ~st.full
    /\ files' = st.files
    /\ data_file_index' = st.data_file_index
    /\ cache' = st.cache

Call(call, raised, value) ==
    [call |-> call, raised |-> raised, value |-> value]

NoCall == Call("", "", <<>>)
NoStream == [data |-> <<>>, pos |-> 0]

\* The engine constructed on an empty directory.
InitEngine ==
    /\ files = init([i \in Indexes |-> NoFile]).files
    /\ data_file_index = init([i \in Indexes |-> NoFile]).data_file_index
    /\ cache = init([i \in Indexes |-> NoFile]).cache
    /\ temp_files = [i \in Indexes |-> NoFile]
    /\ tasks = <<>>
    /\ running = ""
    /\ last = Last("init", <<>>, <<>>, None, "")
    /\ before = NoBefore
    /\ plain = TRUE
    /\ nops = 0

Init ==
    /\ InitEngine
    /\ codec_record = NoRecord
    /\ stream = NoStream
    /\ returned = NoCall

\* A new ToyDB instance on the same directory.
Restart ==
    /\ Idle
    /\ Install(init(files))
    /\ last' = Last("init", <<>>, <<>>, None, "")
    /\ nops' = nops + 1
    /\ before' = NoBefore
    /\ plain' = FALSE
    /\ UNCHANGED <<temp_files, tasks, running>>
    /\ UNCHANGED codec_vars

\* set and delete serialize the record first; when that raises, nothing else
\* has happened.
Set(key, value) ==
    /\ Idle
    /\ IF serialize_raises(ToyDBRecord(encode(key), Some(encode(value)), FALSE))
       THEN /\ UNCHANGED <<files, data_file_index, cache>>
            /\ last' = Last("set", key, value, None, "ToyDBException")
       ELSE /\ Install(set(DB, key, value))
            /\ last' = Last("set", key, value, None, "")
    /\ nops' = nops + 1
    /\ before' = NoBefore
    /\ plain' = plain
    /\ UNCHANGED <<temp_files, tasks, running>>
    /\ UNCHANGED codec_vars

Delete(key) ==
    /\ Idle
    /\ IF serialize_raises(ToyDBRecord(encode(key), None, TRUE))
       THEN /\ UNCHANGED <<files, data_file_index, cache>>
            /\ last' = Last("delete", key, <<>>, None, "ToyDBException")
       ELSE /\ Install(delete(DB, key))
            /\ last' = Last("delete", key, <<>>, None, "")
    /\ nops' = nops + 1
    /\ before' = NoBefore
    /\ plain' = plain
    /\ UNCHANGED <<temp_files, tasks, running>>
    /\ UNCHANGED codec_vars

Drop ==
    /\ Idle
    /\ Install(drop(DB))
    /\ last' = Last("drop", <<>>, <<>>, None, "")
    /\ nops' = nops + 1
    /\ before' = NoBefore
    /\ plain' = FALSE
    /\ UNCHANGED <<temp_files, tasks, running>>
    /\ UNCHANGED codec_vars

Compact(index) ==
    /\ Idle
    /\ \E order \in compact_orders(DB, index) :
          LET c == compact(DB, index, order)
          IN /\ Install(c.st)
             /\ last' = Last("compact", <<>>, <<>>, index, c.raised)
    /\ nops' = nops + 1
    /\ before' = NoBefore
    /\ plain' = FALSE
    /\ UNCHANGED <<temp_files, tasks, running>>
    /\ UNCHANGED codec_vars

\* --------------------------------------------- compact_all and its tasks
\* compact_all gathers one compact(index=i) task per i in
\* range(data_file_index).  Every task resolves its index when it starts,
\* before any of them has changed anything, and then runs from one await to
\* the next.  The steps of a task that another task can tell apart:
\*   scan    the data file is opened and read to its end (or raises); what
\*           is read is the content when the end of the file is reached
\*   rewrite the file is closed; unlink, touch, cache reset, and the start
\*           of the first set or delete
\*   create  the target file, missing so far, is created by the open for
\*           appending
\*   write   the record reaches the target file
\*   store   the file is closed; the offset is stored in the cache and the
\*           next set or delete starts
Task(index) ==
    [index |-> index, pc |-> "scan", pending |-> <<>>, target |-> 0,
     byte_offset |-> 0]

compact_all_tasks(st) ==
    [n \in 1..st.data_file_index |-> Task(compact_index(st, Some(n - 1)))]

\* The record a pending re-issue writes: [key, value] for set, [key] for
\* delete.
pending_record(item) ==
    IF Len(item) = 2
    THEN ToyDBRecord(encode(item[1]), Some(encode(item[2])), FALSE)
    ELSE ToyDBRecord(encode(item[1]), None, TRUE)

RECURSIVE pending_values(_)
pending_values(values) ==
    IF values = <<>> THEN <<>>
    ELSE <<<<decode(values[1][1]), decode(values[1][2])>>>>
         \o pending_values(Tail(values))

RECURSIVE pending_tombstones(_)
pending_tombstones(order) ==
    IF order = <<>> THEN <<>>
    ELSE <<<<decode(Head(order))>>>> \o pending_tombstones(Tail(order))

\* The task starts the set or delete at the head of its pending list, or is
\* done when the list is empty.
task_begin(t, st) ==
    IF t.pending = <<>> THEN [t EXCEPT !.pc = "done"]
    ELSE LET b == set_begin(st, serialize(pending_record(Head(t.pending))))
         IN [t EXCEPT !.pc = IF b.data_file_index \in Indexes
                                    /\ st.files[b.data_file_index].exists
                                 THEN "write" ELSE "create",
                      !.target = b.data_file_index,
                      !.byte_offset = b.byte_offset]

\* The exception of a task ends the awaiting operation; the tasks still
\* running are cancelled where they are.
Raise(e) ==
    /\ last' = Last(running, <<>>, <<>>, None, e)
    /\ tasks' = <<>>
    /\ running' = ""

TaskScan(n) ==
    /\ tasks[n].pc = "scan"
    /\ LET scan == compact_scan(files[tasks[n].index].data, 0, None, <<>>, {})
       IN IF ~files[tasks[n].index].exists
          THEN Raise("FileNotFoundError")
          ELSE IF scan.raised # ""
          THEN Raise(scan.raised)
          ELSE /\ \E order \in Orders(scan.tombstones) :
                    tasks' = [tasks EXCEPT
                                 ![n].pc = "rewrite",
                                 ![n].pending = pending_values(scan.values)
                                     \o pending_tombstones(order)]
               /\ UNCHANGED <<running, last>>
    /\ UNCHANGED <<files, temp_files, data_file_index, cache, before, plain, nops>>
    /\ UNCHANGED codec_vars

TaskRewrite(n) ==
    /\ tasks[n].pc = "rewrite"
    /\ LET st == compact_reset(DB, tasks[n].index)
           t == task_begin(tasks[n], st)
       IN /\ t.target <= MaxIndex
          /\ files' = st.files
          /\ cache' = st.cache
          /\ data_file_index' = IF t.pc = "done" THEN data_file_index ELSE t.target
          /\ tasks' = [tasks EXCEPT ![n] = t]
    /\ UNCHANGED <<temp_files, running, last, before, plain, nops>>
    /\ UNCHANGED codec_vars

TaskCreate(n) ==
    /\ tasks[n].pc = "create"
    /\ files' = [files EXCEPT ![tasks[n].target] = open_append(@)]
    /\ tasks' = [tasks EXCEPT ![n].pc = "write"]
    /\ UNCHANGED <<temp_files, data_file_index, cache, running, last, before, plain, nops>>
    /\ UNCHANGED codec_vars

TaskWrite(n) ==
    /\ tasks[n].pc = "write"
    /\ files' = [files EXCEPT ![tasks[n].target] =
                    [exists |-> TRUE,
                     data |-> @.data \o serialize(pending_record(Head(tasks[n].pending)))]]
    /\ tasks' = [tasks EXCEPT ![n].pc = "store"]
    /\ UNCHANGED <<temp_files, data_file_index, cache, running, last, before, plain, nops>>
    /\ UNCHANGED codec_vars

TaskStore(n) ==
    /\ tasks[n].pc = "store"
    /\ LET key == Head(tasks[n].pending)[1]
           stored == [cache EXCEPT ![data_file_index] =
                         dict_set(@, key, tasks[n].byte_offset)]
           t == task_begin([tasks[n] EXCEPT !.pending = Tail(@)],
                           [DB EXCEPT !.cache = stored])
       IN /\ t.target <= MaxIndex
          /\ cache' = stored
          /\ data_file_index' = IF t.pc = "done" THEN data_file_index ELSE t.target
          /\ tasks' = [tasks EXCEPT ![n] = t]
    /\ UNCHANGED <<files, temp_files, running, last, before, plain, nops>>
    /\ UNCHANGED codec_vars

TaskStep(n) ==
    \/ TaskScan(n)
    \/ TaskRewrite(n)
    \/ TaskCreate(n)
    \/ TaskWrite(n)
    \/ TaskStore(n)

TasksDone == \A n \in 1..Len(tasks) : tasks[n].pc = "done"

\* compact_all() called on its own: the tasks are started ...
CompactAllStart ==
    /\ Idle
    /\ running' = "compact_all"
    /\ tasks' = compact_all_tasks(DB)
    /\ before' = [NoBefore EXCEPT !.db = Some(DB)]
    /\ plain' = FALSE
    /\ nops' = nops + 1
    /\ UNCHANGED <<files, temp_files, data_file_index, cache, last>>
    /\ UNCHANGED codec_vars

\* ... and it returns when all of them are done.
CompactAllFinish ==
    /\ running = "compact_all"
    /\ TasksDone
    /\ last' = Last("compact_all", <<>>, <<>>, None, "")
    /\ tasks' = <<>>
    /\ running' = ""
    /\ UNCHANGED <<files, temp_files, data_file_index, cache, before, plain, nops>>
    /\ UNCHANGED codec_vars

\* merge(): compact_all is started ...
MergeStart ==
    /\ Idle
    /\ running' = "merge"
    /\ tasks' = compact_all_tasks(DB)
    /\ before' = [get |-> [key \in Keys |-> get(DB, key)],
                   segments |-> data_file_index + 1, plain |-> plain,
                   db |-> None]
    /\ plain' = FALSE
    /\ nops' = nops + 1
    /\ UNCHANGED <<files, temp_files, data_file_index, cache, last>>
    /\ UNCHANGED codec_vars

\* ... and once it has returned, the rest of merge runs.
MergeFinish ==
    /\ running = "merge"
    /\ TasksDone
    /\ LET m == merge_rest(DB, temp_files)
       IN /\ Install(m.st)
          /\ temp_files' = m.temp_files
          /\ last' = Last("merge", <<>>, <<>>, None, m.raised)
    /\ tasks' = <<>>
    /\ running' = ""
    /\ UNCHANGED <<before, plain, nops>>
    /\ UNCHANGED codec_vars

Next ==
    \/ Restart
    \/ \E key \in Keys, value \in Values : Set(key, value)
    \/ \E key \in Keys : Delete(key)
    \/ Drop
    \/ \E index \in {None} \cup {Some(i) : i \in Indexes} : Compact(index)
    \/ MergeStart
    \/ \E n \in 1..Len(tasks) : TaskStep(n)
    \/ MergeFinish

Spec == Init /\ [][Next]_vars

\* compact_all called as an operation of its own, among set, delete and
\* compact.
NextCompactAll ==
    \/ \E key \in Keys, value \in Values : Set(key, value)
    \/ \E key \in Keys : Delete(key)
    \/ \E index \in {None} \cup {Some(i) : i \in Indexes} : Compact(index)
    \/ CompactAllStart
    \/ \E n \in 1..Len(tasks) : TaskStep(n)
    \/ CompactAllFinish

SpecCompactAll == Init /\ [][NextCompactAll]_vars

\* The writers called with every input, those past the length limit
\* included, between drops and restarts.
NextOversize ==
    \/ \E key \in Keys \cup {TooLong, TooWide}, value \in Values \cup {TooLong} :
          Set(key, value)
    \/ \E key \in Keys \cup {TooLong, TooWide} : Delete(key)
    \/ Drop
    \/ Restart

SpecOversize == Init /\ [][NextOversize]_vars


\* ------------------------------------- merge on a directory found at start
\* The calls of an earlier engine instance, and the instance after a
\* sequence of them.
EarlierCalls ==
    {Last("set", key, value, None, "") : key \in Keys, value \in Values}
    \cup {Last("delete", key, <<>>, None, "") : key \in Keys}
    \cup {Last("drop", <<>>, <<>>, None, "")}

RECURSIVE earlier(_, _)
earlier(st, calls) ==
    IF calls = <<>> THEN st
    ELSE LET call == Head(calls)
         IN earlier(CASE call.op = "set" -> set(st, call.key, call.value)
                      [] call.op = "delete" -> delete(st, call.key)
                      [] OTHER -> drop(st),
                    Tail(calls))

\* The engine constructed on a directory that an earlier instance left after
\* at most MaxEarlierOps calls.
InitReopened ==
    /\ \E n \in 0..MaxEarlierOps : \E calls \in [1..n -> EarlierCalls] :
          LET left == earlier(init([i \in Indexes |-> NoFile]), calls)
          IN /\ ~left.full
             /\ files = init(left.files).files
             /\ data_file_index = init(left.files).data_file_index
             /\ cache = init(left.files).cache
    /\ temp_files = [i \in Indexes |-> NoFile]
    /\ tasks = <<>>
    /\ running = ""
    /\ last = Last("init", <<>>, <<>>, None, "")
    /\ before = NoBefore
    /\ plain = FALSE
    /\ nops = 0
    /\ codec_record = NoRecord
    /\ stream = NoStream
    /\ returned = NoCall

\* ... and merge called on it, time and again.
NextReopened ==
    \/ MergeStart
    \/ \E n \in 1..Len(tasks) : TaskStep(n)
    \/ MergeFinish

SpecReopened == InitReopened /\ [][NextReopened]_vars

\* ------------------------------------------------------ the codec alone
\* The records handed to the codec: keys and values of 0, 1 and 2 bytes
\* drawn from the three type tags and "k", and of 255 and 256 bytes.
CodecBytes == {KEY, VALUE, TOMBSTONE, 107}
Long(n) == [i \in 1..n |-> 97]
CodecFields ==
    {<<>>} \cup {<<a>> : a \in CodecBytes}
           \cup {<<a, b>> : a \in CodecBytes, b \in CodecBytes}
           \cup {Long(255), Long(256)}
CodecRecords ==
    {ToyDBRecord(key, Some(value), FALSE) : key \in CodecFields, value \in CodecFields}
    \cup {ToyDBRecord(key, None, TRUE) : key \in CodecFields}

InitCodec ==
    /\ InitEngine
    /\ codec_record \in CodecRecords
    /\ stream = NoStream
    /\ returned = NoCall

\* record.size_in_bytes
SizeInBytes ==
    /\ returned.call = ""
    /\ returned' = IF size_in_bytes_raises(codec_record)
                   THEN Call("size_in_bytes", "TypeError", <<>>)
                   ELSE Call("size_in_bytes", "", size_in_bytes(codec_record))
    /\ UNCHANGED <<codec_record, stream>>
    /\ UNCHANGED engine_vars

\* record.serialize(); the bytes returned become the content of a stream
\* with the cursor at its start.
Serialize ==
    /\ returned.call \in {"", "size_in_bytes"}
    /\ IF serialize_raises(codec_record)
       THEN /\ returned' = Call("serialize", "ToyDBException", <<>>)
            /\ UNCHANGED stream
       ELSE /\ returned' = Call("serialize", "", serialize(codec_record))
            /\ stream' = [data |-> serialize(codec_record), pos |-> 0]
    /\ UNCHANGED codec_record
    /\ UNCHANGED engine_vars

\* ToyDBRecord.deserialize(stream)
Deserialize ==
    /\ returned.call = "serialize"
    /\ returned.raised = ""
    /\ LET d == deserialize(stream.data, stream.pos)
       IN /\ returned' = CASE d.kind = "error" ->
                                  Call("deserialize", "ToyDBException", <<>>)
                            [] d.kind = "none" -> Call("deserialize", "", None)
                            [] OTHER -> Call("deserialize", "", Some(d.record))
          /\ stream' = [stream EXCEPT !.pos = d.pos]
    /\ UNCHANGED codec_record
    /\ UNCHANGED engine_vars

NextCodec ==
    \/ SizeInBytes
    \/ Serialize
    \/ Deserialize

SpecCodec == InitCodec /\ [][NextCodec]_vars

\* ---------------------------------------------------------------- claims
DBnext ==
    [files |-> files', data_file_index |-> data_file_index', cache |-> cache',
     full |-> FALSE]

Returned(value) == [raised |-> "", value |-> value]

\* A public operation op has just run to its end in this step.
Ran(op) == running' = "" /\ last'.op = op /\ (nops' = nops + 1 \/ running = op)

\* The record the cache of data file i holds for key.
cached_record(i, key) == deserialize(files[i].data, cache[i][key]).record

\* C1: last-write-wins.  Every set(key, value) makes get(key) return value,
\* and leaves what get returns for every other key as it was; so after any
\* sequence of set calls, whatever roll-overs they cause, get(k) returns the
\* value of the final set of k.
C1_LastWriteWins ==
    [][Ran("set") =>
          /\ get(DBnext, last'.key) = Returned(Some(last'.value))
          /\ \A key \in Keys \ {last'.key} : get(DBnext, key) = get(DB, key)]_vars

\* C1 witness: a set has just overwritten a key whose earlier, different
\* value lies in an older data file, i.e. before a roll-over.
C1_Witness ==
    /\ last.op = "set"
    /\ \E i \in 0..(data_file_index - 1) :
          /\ last.key \in DOMAIN cache[i]
          /\ ~cached_record(i, last.key).tombstone
          /\ cached_record(i, last.key).value # Some(encode(last.value))

\* C2: delete hides and a later set resurrects.  Every delete(key) makes
\* get(key) return None and leaves every other key's get as it was; a set
\* or delete of another key (with or without a roll-over) leaves a hidden
\* key hidden; and a set(key, value) right after delete(key) makes get(key)
\* return value.
C2_DeleteHidesSetResurrects ==
    [][/\ Ran("delete") =>
             /\ get(DBnext, last'.key) = Returned(None)
             /\ \A key \in Keys \ {last'.key} : get(DBnext, key) = get(DB, key)
       /\ Ran("set") =>
             /\ \A key \in Keys \ {last'.key} :
                   get(DB, key) = Returned(None) => get(DBnext, key) = Returned(None)
             /\ (last.op = "delete" /\ last.key = last'.key)
                   => get(DBnext, last'.key) = Returned(Some(last'.value))]_vars

\* C2 witness: a set has just resurrected a key whose tombstone lies in an
\* older data file and whose first value lies in a still older one.
C2_Witness ==
    /\ last.op = "set"
    /\ get(DB, last.key) = Returned(Some(last.value))
    /\ \E i \in 0..(data_file_index - 1), j \in 0..(data_file_index - 1) :
          /\ j < i
          /\ last.key \in DOMAIN cache[i]
          /\ cached_record(i, last.key).tombstone
          /\ last.key \in DOMAIN cache[j]
          /\ ~cached_record(j, last.key).tombstone

\* C3: restart preserves reads.  After set and delete calls, a new engine
\* instance on the same directory returns from get, for every key, what the
\* old instance returned.
C3_RestartPreservesGet ==
    [][(plain /\ Ran("init")) => \A key \in Keys : get(DBnext, key) = get(DB, key)]_vars

\* The largest i such that data{i}.db exists and data{i+1}.db does not.
LargestExisting(fs) ==
    CHOOSE i \in Indexes :
        /\ fs[i].exists /\ (i + 1 \in Indexes => ~fs[i + 1].exists)
        /\ \A j \in Indexes :
              (fs[j].exists /\ (j + 1 \in Indexes => ~fs[j + 1].exists)) => j <= i

\* C4: startup scan.  Construction sets data_file_index to the largest i
\* such that data{i}.db exists and data{i+1}.db does not; with no data file
\* at all it creates an empty data0.db and sets data_file_index to 0.
C4_StartupScan ==
    [][Ran("init") =>
          IF \E i \in Indexes : files[i].exists
          THEN data_file_index' = LargestExisting(files) /\ files' = files
          ELSE data_file_index' = 0
               /\ files' = [files EXCEPT ![0] = EmptyFile]]_vars

\* C5: compaction preserves the map.  In a state reached by set and delete
\* calls, compact(i) with 0 <= i <= data_file_index leaves what get returns
\* unchanged for every key.
C5_CompactPreservesGet ==
    [][(plain /\ Ran("compact") /\ last'.index # None
          /\ last'.index[1] <= data_file_index)
          => \A key \in Keys : get(DBnext, key) = get(DB, key)]_vars

\* C6: merge preserves the map.  Called in a state reached by set and delete
\* calls, merge() completes, and afterwards get returns for every key what
\* it returned when merge was called.
C6_MergePreservesGet ==
    (running = "" /\ last.op = "merge" /\ before.plain) =>
        /\ last.raised = ""
        /\ \A key \in Keys : get(DB, key) = before.get[key]

\* C7: merge never increases the number of segments: after a merge() called
\* in a state reached by set and delete calls there are at most as many
\* data files data0 .. data{data_file_index} as when merge was called.
C7_MergeNeverAddsSegments ==
    (running = "" /\ last.op = "merge" /\ before.plain /\ last.raised = "") =>
        data_file_index + 1 <= before.segments

\* A file content holds a tombstone, or two records with the same key.
has_duplicate_or_tombstone(data) ==
    LET records == iterate_file(data, 0).records
    IN \/ \E n \in 1..Len(records) : records[n].tombstone
       \/ \E n, m \in 1..Len(records) : n # m /\ records[n].key = records[m].key

\* C8: compaction strictly shrinks.  For a segment i that holds a duplicate
\* key or a tombstone, compact(i) completes and leaves data{i}.db strictly
\* smaller than it was (compact() with no index is compact of the current
\* data file).
C8_CompactShrinks ==
    [][Ran("compact") =>
          LET i == IF last'.index = None THEN data_file_index ELSE last'.index[1]
          IN (i <= data_file_index /\ files[i].exists
                /\ has_duplicate_or_tombstone(files[i].data))
             => /\ last'.raised = ""
                /\ Len(files'[i].data) < Len(files[i].data)]_vars

\* C9: roll-over rule.  For every set and delete: if the size of the current
\* data file plus the length of the serialized record is larger than
\* max_file_size, data_file_index grows by exactly one and the record is
\* written at offset 0 of the new current file; otherwise data_file_index
\* stays and the record is appended at the previous end of the current
\* file.  Keys written before stay readable.
C9_RollOverRule ==
    [][(Ran("set") \/ Ran("delete")) =>
          LET record == IF last'.op = "set"
                        THEN ToyDBRecord(encode(last'.key),
                                         Some(encode(last'.value)), FALSE)
                        ELSE ToyDBRecord(encode(last'.key), None, TRUE)
              size == Len(files[data_file_index].data)
          IN /\ IF size + Len(serialize(record)) > max_file_size
                THEN /\ data_file_index' = data_file_index + 1
                     /\ cache'[data_file_index'][last'.key] = 0
                     /\ files'[data_file_index'].data = serialize(record)
                ELSE /\ data_file_index' = data_file_index
                     /\ cache'[data_file_index][last'.key] = size
                     /\ files'[data_file_index].data
                           = files[data_file_index].data \o serialize(record)
             /\ \A key \in Keys \ {last'.key} : get(DBnext, key) = get(DB, key)]_vars

\* C10: drop post-condition.  After drop() the cache is empty, get returns
\* None for every key, data_file_index is 0 and an empty data0.db exists.
C10_DropPostCondition ==
    last.op = "drop" =>
        /\ \A i \in Indexes : cache[i] = EmptyDict
        /\ \A key \in Keys : get(DB, key) = Returned(None)
        /\ data_file_index = 0
        /\ files[0] = EmptyFile

\* An input whose utf-8 encoding is longer than 255 bytes.
oversize(s) == Len(encode(s)) > 255

\* C11: oversize input is rejected before any I/O.  Every set whose key or
\* value, and every delete whose key, is longer than 255 bytes raises
\* ToyDBException and leaves every data file, data_file_index and the cache
\* as they were.
C11_OversizeRejected ==
    [][((Ran("set") /\ (oversize(last'.key) \/ oversize(last'.value)))
        \/ (Ran("delete") /\ oversize(last'.key)))
          => /\ last'.raised = "ToyDBException"
             /\ UNCHANGED <<files, temp_files, data_file_index, cache>>]_vars

\* C11 witness: a delete of an oversize key has just been refused while the
\* current data file is full, so that any write would have rolled over, and
\* a set whose key has 128 characters but 256 bytes likewise.
C11_Witness ==
    /\ last.raised = "ToyDBException"
    /\ Len(files[data_file_index].data) = max_file_size
    /\ \/ last.op = "delete" /\ last.key = TooLong
       \/ last.op = "set" /\ last.key = TooWide /\ last.value \in Values

\* C12: segment contiguity invariant.  Between the operations of an engine
\* instance data_file_index >= 0 and data{i}.db exists for every i with
\* 0 <= i <= data_file_index.
C12_SegmentContiguity ==
    running = "" =>
        /\ data_file_index >= 0
        /\ \A i \in 0..data_file_index : files[i].exists

\* The records of a file content with the offset each starts at, up to the
\* end of the content or the first corrupt record.
RECURSIVE records_with_offsets(_, _)
records_with_offsets(data, pos) ==
    LET d == deserialize(data, pos)
    IN IF d.kind # "record" THEN <<>>
       ELSE <<[offset |-> pos, record |-> d.record]>>
            \o records_with_offsets(data, d.pos)

\* C13: offset index invariant.  Between operations, every cache entry
\* (data{i}.db, key) -> offset names an existing file, the offset is the
\* first byte of a record of that file, that record's key is key, and no
\* later record of the file has that key.
C13_OffsetIndex ==
    running = "" =>
        \A i \in Indexes : \A key \in DOMAIN cache[i] :
            /\ files[i].exists
            /\ LET records == records_with_offsets(files[i].data, 0)
               IN \E n \in 1..Len(records) :
                     /\ records[n].offset = cache[i][key]
                     /\ records[n].record.key = encode(key)
                     /\ \A m \in (n + 1)..Len(records) :
                           records[m].record.key # encode(key)

\* The records of data{i}.db in file order, and of data{i}.db .. data{j}.db
\* one file after the other.
segment_records(i) ==
    LET records == records_with_offsets(files[i].data, 0)
    IN [n \in 1..Len(records) |-> records[n].record]

RECURSIVE segments_records(_, _)
segments_records(i, j) ==
    IF i > j THEN <<>> ELSE segment_records(i) \o segments_records(i + 1, j)

\* C14: scan order and scope.  With data0.db .. data{data_file_index}.db
\* present, iterate() yields every record of every data file, files in
\* ascending order and records in file order, and iterate(i) yields exactly
\* the records of data{i}.db for every 0 <= i <= data_file_index, i = 0
\* included.
C14_IterateScope ==
    (running = "" /\ \A i \in 0..data_file_index : files[i].exists) =>
        /\ iterate(DB, None)
              = [records |-> segments_records(0, data_file_index), raised |-> ""]
        /\ \A i \in 0..data_file_index :
              iterate(DB, Some(i)) = [records |-> segment_records(i), raised |-> ""]

\* A field of 1..255 bytes.
valid_size(field) == Len(field) \in 1..255

\* C15: codec round trip.  For every put and every tombstone whose fields
\* have 1..255 bytes, deserialize on the bytes that serialize returned
\* yields a record equal to the original, and the stream is then at its end
\* (a further deserialize returns None).
C15_CodecRoundTrip ==
    (/\ returned.call = "deserialize"
     /\ valid_size(codec_record.key)
     /\ codec_record.tombstone \/ valid_size(codec_record.value[1]))
        => /\ returned = Call("deserialize", "", Some(codec_record))
           /\ stream.pos = Len(stream.data)
           /\ deserialize(stream.data, stream.pos).kind = "none"

\* C15 witness: a put whose key and value are 255 bytes long has been
\* serialized and read back.
C15_Witness ==
    /\ returned.call = "deserialize"
    /\ ~codec_record.tombstone
    /\ Len(codec_record.key) = 255
    /\ Len(codec_record.value[1]) = 255
    /\ Len(stream.data) = 514

\* C16: merge file-set post-condition.  After a merge() that returned, no
\* tempdata{i}.db exists and the data files are exactly data0.db ..
\* data{data_file_index}.db: data_file_index is the last output file and
\* no data file above it remains.
C16_MergeFileSet ==
    (running = "" /\ last.op = "merge" /\ last.raised = "") =>
        /\ \A i \in Indexes : ~temp_files[i].exists
        /\ \A i \in Indexes : files[i].exists <=> i <= data_file_index

\* C17: compact_all scope.  compact_all starts one compaction for each of
\* the data files 0 .. data_file_index - 1, data0.db included, and none for
\* the current data file; and compact(i) with an explicit index i below
\* data_file_index compacts data{i}.db: that file is rewritten (it ends
\* empty, its records being re-issued into the current data file) and no
\* other file below data_file_index is touched.
C17_CompactAllScope ==
    [][/\ (running = "" /\ running' # "")
             => tasks' = [n \in 1..data_file_index |-> Task(n - 1)]
       /\ (Ran("compact") /\ last'.index # None /\ last'.raised = ""
             /\ last'.index[1] < data_file_index)
             => /\ files'[last'.index[1]] = EmptyFile
                /\ \A j \in 0..(data_file_index - 1) :
                      j # last'.index[1] => files'[j] = files[j]]_vars

\* The engine state final is what running compact(i) for every i of indexes
\* one after another, in some order and without a failure, makes of st.
RECURSIVE reached_sequentially(_, _, _)
reached_sequentially(st, indexes, final) ==
    IF indexes = {}
    THEN /\ st.files = final.files
         /\ st.data_file_index = final.data_file_index
         /\ st.cache = final.cache
    ELSE \E i \in indexes : \E order \in compact_orders(st, Some(i)) :
            LET c == compact(st, Some(i), order)
            IN /\ c.raised = ""
               /\ ~c.st.full
               /\ reached_sequentially(c.st, indexes \ {i}, final)

\* C18: compact_all serializes the re-issue phase.  When all the tasks of a
\* compact_all() are done, however they interleaved, the data files,
\* data_file_index and the cache are what running the same compactions one
\* after another in some order makes of the state compact_all was called in.
C18_CompactAllSerializes ==
    (running = "compact_all" /\ TasksDone) =>
        reached_sequentially(before.db[1],
                             {tasks[n].index : n \in 1..Len(tasks)}, DB)

\* C19: merge output holds one record per key.  After a merge() that
\* returned, no two records of data0.db .. data{data_file_index}.db
\* together have the same key.
C19_MergeOneRecordPerKey ==
    (running = "" /\ last.op = "merge" /\ last.raised = ""
       /\ \A i \in 0..data_file_index : files[i].exists) =>
        LET records == segments_records(0, data_file_index)
        IN \A n, m \in 1..Len(records) :
              records[n].key = records[m].key => n = m

\* C20: the serialized size is total and agrees with the codec.  For every
\* record, size_in_bytes returns (it raises nothing, for a tombstone too)
\* 2 + len(key) for a tombstone and 4 + len(key) + len(value) for a put,
\* which is the length of what serialize returns for it.
C20_SizeInBytes ==
    returned.call = "size_in_bytes" =>
        /\ returned.raised = ""
        /\ returned.value = IF codec_record.tombstone
                            THEN 2 + Len(codec_record.key)
                            ELSE 4 + Len(codec_record.key)
                                 + Len(codec_record.value[1])
        /\ ~serialize_raises(codec_record)
              => returned.value = Len(serialize(codec_record))

\* Record n of records is a tombstone whose key is not in values when the
\* scan of compact reaches it: no record before it has the key, or the last
\* one that has it is a tombstone too.
unmatched_tombstone(records, n) ==
    /\ records[n].tombstone
    /\ \A m \in 1..(n - 1) :
          (records[m].key = records[n].key /\ ~records[m].tombstone)
             => \E l \in (m + 1)..(n - 1) :
                   records[l].key = records[n].key /\ records[l].tombstone

\* The last record of records with the key of record n is record n.
last_of_key(records, n) ==
    \A m \in (n + 1)..Len(records) : records[m].key # records[n].key

\* C21: compaction handles any tombstone.  When the data file compact scans
\* holds a tombstone for a key with no put before it in that file (or only
\* puts already tombstoned there), the call completes without error, and a
\* key whose last record in the file is such a tombstone stays deleted: get
\* returns None for it after the call.
C21_CompactHandlesAnyTombstone ==
    [][Ran("compact") =>
          LET i == compact_index(DB, last'.index)
              records == IF i \in Indexes /\ files[i].exists
                         THEN iterate_file(files[i].data, 0).records
                         ELSE <<>>
          IN (\E n \in 1..Len(records) : unmatched_tombstone(records, n))
             => /\ last'.raised = ""
                /\ \A n \in 1..Len(records) :
                      (unmatched_tombstone(records, n) /\ last_of_key(records, n))
                         => get(DBnext, decode(records[n].key)) = None]_vars

====
